---- MODULE Spec2Model ----
(***************************************************************************)
(* A model of the libczirw-sys handle layer: the Rust wrapper types of     *)
(* src/src/handle.rs and the operations of src/src/functions.rs that       *)
(* forward to the native libCZIAPI engine.  The wrapper side (which native *)
(* calls an operation issues, in which order, what it does with the        *)
(* returned code, which wrapper values exist afterwards) is translated     *)
(* from the Rust source.  The engine side (what a native call does to an   *)
(* engine object) is not part of the Rust source and is modelled from the  *)
(* specification and the documentation comments of the bindings.           *)
(***************************************************************************)
EXTENDS Integers, Sequences, FiniteSets, Bags, TLC

\* ------------------------------------------------------------------ bounds
\* number of engine objects (handles) a behaviour may create
MaxObj == 2
\* number of wrapper values alive at the same time
MaxWrappers == 2
\* try_from is applied to every code in -MaxCode..MaxCode
MaxCode == 64

Handles == 1..MaxObj
\* number of blocks the engine's allocator hands out in a behaviour
MaxBlocks == 2
Blocks == 1..MaxBlocks
\* number of scenes of a document, and the largest capacity requested
MaxScenes == 9
\* number of entries of a directory
MaxEntries == 3
\* length of raw data, and the largest buffer size passed
MaxLen == 3

\* ------------------------------------------------------------- wrapper types
Kinds ==
    {"CziReader", "InputStream", "OutputStream", "SubBlock", "Bitmap", "CziWriter",
     "DisplaySettings", "ChannelDisplaySettings"}
WTypes == Kinds \cup {"LockedBitmap"}

VARIABLES
    scope,        \* the part of the library the behaviour exercises
    eng,          \* the engine: per handle kind, reference count, lock count, writer state
    wrappers,     \* bag of live Rust wrapper values [ty, h]
    openInfos,    \* stream handles held by ReaderOpenInfo values (plain data, no Drop)
    closeCalled,  \* writer handles on which CziWriter::close() was called explicitly
    op,           \* the last wrapper operation: [name, ty, arg]
    calls,        \* the native calls the last operation issued, in order
    ret,          \* what the last operation returned: [ok, kind]
    heap,         \* the engine's allocator: per block "none", "live" or "freed"
    values,       \* bag of live Rust values that hold a pointer to a block: [ty, buf]
    frees,        \* the deallocations the last operation performed, in order
    out           \* the value the last operation returned, when the model keeps it

vars == <<scope, eng, wrappers, openInfos, closeCalled, op, calls, ret, heap, values, frees, out>>

\* ------------------------------------------------------------- error codes
\* LibCZIApiError::try_from(code): Ok only for 0, a named error for the six
\* known codes, an anonymous anyhow error for every other code.
TryFromWrongZeroOrNegative(code) ==
    IF code <= 0 THEN [ok |-> TRUE, kind |-> "OK"]
    ELSE IF code = 1 THEN [ok |-> FALSE, kind |-> "InvalidArgument"]
    ELSE IF code = 2 THEN [ok |-> FALSE, kind |-> "InvalidHandle"]
    ELSE IF code = 3 THEN [ok |-> FALSE, kind |-> "OutOfMemory"]
    ELSE IF code = 4 THEN [ok |-> FALSE, kind |-> "IndexOutOfRange"]
    ELSE IF code = 20 THEN [ok |-> FALSE, kind |-> "LockUnlockSemanticViolated"]
    ELSE IF code = 50 THEN [ok |-> FALSE, kind |-> "UnspecifiedError"]
    ELSE [ok |-> FALSE, kind |-> "UnknownErrorCode"]

TryFromSwallowsUsageErrors(code) ==
    IF code = 0 \/ code = 1 \/ code = 50 THEN [ok |-> TRUE, kind |-> "OK"]
    ELSE IF code = 2 THEN [ok |-> FALSE, kind |-> "InvalidHandle"]
    ELSE IF code = 3 THEN [ok |-> FALSE, kind |-> "OutOfMemory"]
    ELSE IF code = 4 THEN [ok |-> FALSE, kind |-> "IndexOutOfRange"]
    ELSE IF code = 20 THEN [ok |-> FALSE, kind |-> "LockUnlockSemanticViolated"]
    ELSE [ok |-> FALSE, kind |-> "UnknownErrorCode"]

TryFromWithoutLockUnlock(code) ==
    IF code = 0 THEN [ok |-> TRUE, kind |-> "OK"]
    ELSE IF code = 1 THEN [ok |-> FALSE, kind |-> "InvalidArgument"]
    ELSE IF code = 2 THEN [ok |-> FALSE, kind |-> "InvalidHandle"]
    ELSE IF code = 3 THEN [ok |-> FALSE, kind |-> "OutOfMemory"]
    ELSE IF code = 4 THEN [ok |-> FALSE, kind |-> "IndexOutOfRange"]
    ELSE IF code = 50 THEN [ok |-> FALSE, kind |-> "UnspecifiedError"]
    ELSE [ok |-> FALSE, kind |-> "UnknownErrorCode"]

TryFromIndexAsInvalidArgument(code) ==
    IF code = 0 THEN [ok |-> TRUE, kind |-> "OK"]
    ELSE IF code = 1 \/ code = 4 THEN [ok |-> FALSE, kind |-> "InvalidArgument"]
    ELSE IF code = 2 THEN [ok |-> FALSE, kind |-> "InvalidHandle"]
    ELSE IF code = 3 THEN [ok |-> FALSE, kind |-> "OutOfMemory"]
    ELSE IF code = 20 THEN [ok |-> FALSE, kind |-> "LockUnlockSemanticViolated"]
    ELSE IF code = 50 THEN [ok |-> FALSE, kind |-> "UnspecifiedError"]
    ELSE [ok |-> FALSE, kind |-> "UnknownErrorCode"]

TryFrom(code) ==
    IF code = 0 THEN [ok |-> TRUE, kind |-> "OK"]
    ELSE IF code = 1 THEN [ok |-> FALSE, kind |-> "InvalidArgument"]
    ELSE IF code = 2 THEN [ok |-> FALSE, kind |-> "InvalidHandle"]
    ELSE IF code = 3 THEN [ok |-> FALSE, kind |-> "OutOfMemory"]
    ELSE IF code = 4 THEN [ok |-> FALSE, kind |-> "IndexOutOfRange"]
    ELSE IF code = 20 THEN [ok |-> FALSE, kind |-> "LockUnlockSemanticViolated"]
    ELSE IF code = 50 THEN [ok |-> FALSE, kind |-> "UnspecifiedError"]
    ELSE [ok |-> FALSE, kind |-> "UnknownErrorCode"]

\* results that do not come from a native code
NoResult == [ok |-> TRUE, kind |-> "None"]
NulError == [ok |-> FALSE, kind |-> "NulError"]
Panic == [ok |-> FALSE, kind |-> "Panic"]
Utf8Error == [ok |-> FALSE, kind |-> "Utf8Error"]

\* ------------------------------------------------------------------ engine
\* The native engine, per handle.  kind "none" is a handle not yet issued.
EngInit ==
    [kind    |-> [h \in Handles |-> "none"],
     rc      |-> [h \in Handles |-> 0],
     lockCnt |-> [h \in Handles |-> 0],
     wstate  |-> [h \in Handles |-> "NA"]]

Live(st, h) == st.rc[h] > 0

FreeHandles(st) == {h \in Handles : st.kind[h] = "none"}

\* every creation returns a fresh handle: the smallest one not yet issued
FreshHandle(st) == CHOOSE h \in FreeHandles(st) : \A g \in FreeHandles(st) : h <= g

NewObject(st, k) ==
    LET h == FreshHandle(st) IN
    [st EXCEPT !.kind[h] = k, !.rc[h] = 1,
               !.wstate[h] = IF k = "CziWriter" THEN "Created" ELSE "NA"]

\* An outcome of a native call: the returned code, the engine afterwards, the
\* handle written to the out-parameter (0: none) and whether the call operated
\* on the memory of an object that was already freed.
Outcome(code, st, h, touched) == [code |-> code, st |-> st, h |-> h, touched |-> touched]

\* A call on a handle whose object was freed.  The handle is a dangling pointer
\* ("After this function is called, the handle is no longer valid"): the call
\* either happens to detect it (InvalidHandle) or operates on the freed memory.
Stale(st) == {Outcome(2, st, 0, FALSE), Outcome(0, st, 0, TRUE)}

\* A creation call on a freed parent: detected, or the out-parameter receives
\* whatever the freed memory yields, a handle to no live object.
StaleCreate(st) ==
    {Outcome(2, st, 0, FALSE)}
        \cup {Outcome(0, st, g, TRUE) :
                g \in {h \in Handles : st.kind[h] # "none" /\ ~Live(st, h)}}

\* the codes with which the engine rejects an operation in the wrong state
UsageErrorCodes == {1, 50}

EngCreate(st, k) ==
    {Outcome(0, NewObject(st, k), FreshHandle(st), FALSE), Outcome(3, st, 0, FALSE)}

\* the file-based stream constructors: "Non-positive values indicates
\* successful, positive values indicates unsuccessful operation."
EngCreateFromFile(st, k) ==
    {Outcome(c, NewObject(st, k), FreshHandle(st), FALSE) : c \in {-1, 0}}
        \cup {Outcome(50, st, 0, FALSE)}

EngCreateFrom(st, parent, k) ==
    IF ~Live(st, parent) THEN StaleCreate(st)
    ELSE {Outcome(0, NewObject(st, k), FreshHandle(st), FALSE), Outcome(1, st, 0, FALSE)}

EngUse(st, h) ==
    IF ~Live(st, h) THEN Stale(st) ELSE {Outcome(0, st, 0, FALSE)}

\* release decrements the reference count and frees the object at zero;
\* releasing a still-locked bitmap is a usage error
EngRelease(st, h) ==
    IF ~Live(st, h) THEN Stale(st)
    ELSE IF st.lockCnt[h] > 0 THEN {Outcome(20, st, 0, FALSE)}
    ELSE {Outcome(0, [st EXCEPT !.rc[h] = @ - 1], 0, FALSE)}

\* the engine's release operation of each kind of object
EngReleaseOperation(k) ==
    CASE k = "CziReader" -> "libCZI_ReleaseReader"
      [] k = "InputStream" -> "libCZI_ReleaseInputStream"
      [] k = "OutputStream" -> "libCZI_ReleaseOutputStream"
      [] k = "SubBlock" -> "libCZI_ReleaseSubBlock"
      [] k = "Bitmap" -> "libCZI_ReleaseBitmap"
      [] k = "CziWriter" -> "libCZI_ReleaseWriter"
      [] k = "DisplaySettings" -> "libCZI_ReleaseDisplaySettings"
      [] k = "ChannelDisplaySettings" -> "libCZI_ReleaseChannelDisplaySettings"
      [] k = "Attachment" -> "libCZI_ReleaseAttachment"
      [] OTHER -> "none"

\* the native function the release method of each wrapper type calls; a
\* LockedBitmap releases through its bitmap field
ReleaseOperation(ty) ==
    CASE ty = "CziReader" -> "libCZI_ReleaseReader"
      [] ty = "InputStream" -> "libCZI_ReleaseInputStream"
      [] ty = "OutputStream" -> "libCZI_ReleaseOutputStream"
      [] ty = "SubBlock" -> "libCZI_ReleaseSubBlock"
      [] ty \in {"Bitmap", "LockedBitmap"} -> "libCZI_ReleaseBitmap"
      [] ty = "CziWriter" -> "libCZI_ReleaseWriter"
      [] ty = "DisplaySettings" -> "libCZI_ReleaseDisplaySettings"
      [] ty = "ChannelDisplaySettings" -> "libCZI_ReleaseDisplaySettings"
      [] ty = "Attachment" -> "libCZI_ReleaseAttachment"

\* a release function applied to a live object of another kind treats the
\* handle as a pointer to an object of its own kind: the call is rejected,
\* or it operates on memory that is not such an object
EngReleaseWith(st, h, fn) ==
    IF ~Live(st, h) THEN Stale(st)
    ELSE IF fn # EngReleaseOperation(st.kind[h])
    THEN {Outcome(2, st, 0, FALSE), Outcome(0, [st EXCEPT !.rc[h] = @ - 1], 0, TRUE)}
    ELSE EngRelease(st, h)

EngLock(st, h) ==
    IF ~Live(st, h) THEN Stale(st)
    ELSE {Outcome(0, [st EXCEPT !.lockCnt[h] = @ + 1], 0, FALSE)}

EngUnlock(st, h) ==
    IF ~Live(st, h) THEN Stale(st)
    ELSE IF st.lockCnt[h] = 0 THEN {Outcome(20, st, 0, FALSE)}
    ELSE {Outcome(0, [st EXCEPT !.lockCnt[h] = @ - 1], 0, FALSE)}

\* the reader is bound to the stream of the open-info
EngReaderOpen(st, h, s) ==
    IF ~Live(st, h) \/ ~Live(st, s) THEN Stale(st)
    ELSE {Outcome(0, st, 0, FALSE), Outcome(1, st, 0, FALSE)}

\* writer pipeline: Created -> Initialized -> Finalized
EngWriterInit(st, h, s) ==
    IF ~Live(st, h) \/ ~Live(st, s) THEN Stale(st)
    ELSE IF st.wstate[h] = "Created"
    THEN {Outcome(0, [st EXCEPT !.wstate[h] = "Initialized"], 0, FALSE),
          Outcome(1, st, 0, FALSE)}
    ELSE {Outcome(c, st, 0, FALSE) : c \in UsageErrorCodes}

EngWriterAdd(st, h) ==
    IF ~Live(st, h) THEN Stale(st)
    ELSE IF st.wstate[h] = "Initialized"
    THEN {Outcome(0, st, 0, FALSE), Outcome(1, st, 0, FALSE)}
    ELSE {Outcome(c, st, 0, FALSE) : c \in UsageErrorCodes}

EngWriterClose(st, h) ==
    IF ~Live(st, h) THEN Stale(st)
    ELSE IF st.wstate[h] = "Initialized"
    THEN {Outcome(0, [st EXCEPT !.wstate[h] = "Finalized"], 0, FALSE)}
    ELSE {Outcome(c, st, 0, FALSE) : c \in UsageErrorCodes}

\* ---------------------------------------------------------------- call log
\* one native call: the function, the handle, the returned code, the object's
\* reference count, lock count and writer state when the call was made,
\* whether a Drop implementation made it (its result is discarded) and
\* whether it operated on freed memory
CallRec(fn, h, st, o, inDrop) ==
    [fn |-> fn, h |-> h, code |-> o.code, rc |-> st.rc[h], lock |-> st.lockCnt[h],
     ws |-> st.wstate[h], inDrop |-> inDrop, touched |-> o.touched]

\* a native release call made by a value of wrapper type ty: also the native
\* function called and the kind of the object behind the handle
ReleaseRec(ty, h, st, o, inDrop) ==
    [fn |-> "Release", h |-> h, code |-> o.code, rc |-> st.rc[h], lock |-> st.lockCnt[h],
     ws |-> st.wstate[h], inDrop |-> inDrop, touched |-> o.touched,
     native |-> ReleaseOperation(ty), kind |-> st.kind[h]]

CreateRec(o) ==
    [fn |-> "Create", h |-> o.h, code |-> o.code, rc |-> 0, lock |-> 0,
     ws |-> "NA", inDrop |-> FALSE, touched |-> o.touched]

W(ty, h) == [ty |-> ty, h |-> h]
Add(b, w) == b (+) SetToBag({w})
Remove(b, w) == b (-) SetToBag({w})
Room == BagCardinality(wrappers) < MaxWrappers
Held(ty) == {w \in BagToSet(wrappers) : w.ty = ty}

\* The handles some wrapper value or open-info still holds.  A handle nobody
\* holds can never be passed to the engine again: its slot is forgotten, which
\* makes it available to a later creation as a fresh handle.
Referenced ==
    {w.h : w \in BagToSet(wrappers)} \cup openInfos
        \cup {v.buf : v \in {x \in BagToSet(values) : x.ty = "PixelView"}}

Forget(st, refs) ==
    [kind    |-> [h \in Handles |-> IF h \in refs THEN st.kind[h] ELSE "none"],
     rc      |-> [h \in Handles |-> IF h \in refs THEN st.rc[h] ELSE 0],
     lockCnt |-> [h \in Handles |-> IF h \in refs THEN st.lockCnt[h] ELSE 0],
     wstate  |-> [h \in Handles |-> IF h \in refs THEN st.wstate[h] ELSE "NA"]]

\* the engine as the next operation finds it
Cur == Forget(eng, Referenced)
Closed == closeCalled \cap Referenced

CanCreate == Room /\ FreeHandles(Cur) # {}

\* what every operation leaves behind: the engine, the wrapper values, the
\* operation's name, its native calls and its result
StepOut(st, wr, oi, cc, name, ty, arg, cs, r, o) ==
    /\ UNCHANGED scope
    /\ eng' = st
    /\ wrappers' = wr
    /\ openInfos' = oi
    /\ closeCalled' = cc
    /\ op' = [name |-> name, ty |-> ty, arg |-> arg]
    /\ calls' = cs
    /\ ret' = r
    /\ frees' = <<>>
    /\ out' = o
    /\ UNCHANGED <<heap, values>>

Step(st, wr, oi, cc, name, ty, arg, cs, r) ==
    StepOut(st, wr, oi, cc, name, ty, arg, cs, r, <<>>)

\* ------------------------------------------------------------------- state
\* A behaviour exercises one part of the library:
\*   "stream": readers, streams and open-infos, sub-blocks read from a reader;
\*   "bitmap": a sub-block read from an opened reader (as in lib.rs,
\*             test_read_bytes), its bitmaps and their locks;
\*   "writer": output streams and writers;
\*   "buffer": values that carry a pointer to engine-allocated memory;
\*   "stats": the extended statistics of an opened reader;
\*   "directory": lookups by index on an opened reader;
\*   "rawdata": the raw data of a sub-block or an attachment;
\*   "display": the display settings of a document and their channels;
\*   "compositor": bitmaps of a sub-block and their multi-channel composition;
\*   "strings": the strings the engine allocates for JSON results;
\*   "copy": a locked bitmap of a sub-block and copies of its pixels.
Scopes ==
    {"stream", "bitmap", "writer", "buffer", "stats", "directory", "rawdata", "display",
     "compositor", "strings", "copy"}
InScope(S) == scope \in S

\* in the "bitmap", "compositor" and "copy" scopes handle 1 is the sub-block
\* that was read
EngWithSubBlock == NewObject(EngInit, "SubBlock")

\* in the "display" scope handle 1 is the display-settings object obtained
\* from CziDocumentInfo::get_display_settings
EngWithDisplaySettings == NewObject(EngInit, "DisplaySettings")

Init ==
    /\ scope \in Scopes
    /\ eng = CASE scope \in {"bitmap", "compositor", "copy"} -> EngWithSubBlock
               [] scope = "display" -> EngWithDisplaySettings
               [] OTHER -> EngInit
    /\ wrappers = CASE scope \in {"bitmap", "compositor", "copy"} -> SetToBag({W("SubBlock", 1)})
                    [] scope = "display" -> SetToBag({W("DisplaySettings", 1)})
                    [] OTHER -> EmptyBag
    /\ openInfos = {}
    /\ closeCalled = {}
    /\ op = [name |-> "init", ty |-> "none", arg |-> 0]
    /\ calls = <<>>
    /\ ret = NoResult
    /\ heap = [b \in Blocks |-> "none"]
    /\ values = EmptyBag
    /\ frees = <<>>
    /\ out = <<>>

\* --------------------------------------------------------------- operations
\* A creation operation: the native call writes the new handle, try_from(code)?
\* decides whether the wrapper value is built.
Created(name, ty, o) ==
    LET r == TryFrom(o.code) IN
    Step(o.st, IF r.ok THEN Add(wrappers, W(ty, o.h)) ELSE wrappers, openInfos, Closed,
         name, ty, 0, <<CreateRec(o)>>, r)

\* a native call whose result is the operation's result
Forwarded(name, w, fn, o) ==
    Step(o.st, wrappers, openInfos, Closed,
         name, w.ty, 0, <<CallRec(fn, w.h, Cur, o, FALSE)>>, TryFrom(o.code))

\* CString::new(..)? comes first: an interior NUL returns its error before any
\* native call
NulRejected(name, ty) ==
    Step(Cur, wrappers, openInfos, Closed, name, ty, 1, <<>>, NulError)

CziReader_create ==
    /\ InScope({"stream"})
    /\ CanCreate
    /\ \E o \in EngCreate(Cur, "CziReader") : Created("CziReader::create", "CziReader", o)

InputStream_create_from_file_wide ==
    /\ InScope({"stream"})
    /\ CanCreate
    /\ \E o \in EngCreateFromFile(Cur, "InputStream") :
          Created("InputStream::create_from_file_wide", "InputStream", o)

InputStream_create_from_file_utf8 ==
    /\ InScope({"stream"})
    /\ \E hasNul \in BOOLEAN :
          IF hasNul
          THEN NulRejected("InputStream::create_from_file_utf8", "InputStream")
          ELSE /\ CanCreate
               /\ \E o \in EngCreateFromFile(Cur, "InputStream") :
                     Created("InputStream::create_from_file_utf8", "InputStream", o)

OutputStream_create_for_file_wide ==
    /\ InScope({"writer"})
    /\ CanCreate
    /\ \E o \in EngCreateFromFile(Cur, "OutputStream") :
          Created("OutputStream::create_for_file_wide", "OutputStream", o)

OutputStream_create_for_file_utf8 ==
    /\ InScope({"writer"})
    /\ \E hasNul \in BOOLEAN :
          IF hasNul
          THEN NulRejected("OutputStream::create_for_file_utf8", "OutputStream")
          ELSE /\ CanCreate
               /\ \E o \in EngCreateFromFile(Cur, "OutputStream") :
                     Created("OutputStream::create_for_file_utf8", "OutputStream", o)

\* ReaderOpenInfo::new copies the stream's handle into plain data
ReaderOpenInfo_new ==
    /\ InScope({"stream"})
    /\ \E w \in Held("InputStream") :
          Step(Cur, wrappers, openInfos \cup {w.h}, Closed,
               "ReaderOpenInfo::new", "ReaderOpenInfo", 0, <<>>, NoResult)

\* ReaderOpenInfo::get_stream builds an InputStream around the stored handle
ReaderOpenInfo_get_stream ==
    /\ InScope({"stream"})
    /\ Room
    /\ \E h \in openInfos :
          Step(Cur, Add(wrappers, W("InputStream", h)), openInfos, Closed,
               "ReaderOpenInfo::get_stream", "ReaderOpenInfo", 0, <<>>, NoResult)

\* a ReaderOpenInfo goes out of scope: plain data, no Drop, no native call
ReaderOpenInfo_drop ==
    /\ InScope({"stream"})
    /\ \E h \in openInfos :
          Step(Cur, wrappers, openInfos \ {h}, Closed,
               "drop", "ReaderOpenInfo", 0, <<>>, NoResult)

\* the open-info is Clone and passed by value; it has no Drop
CziReader_open ==
    /\ InScope({"stream"})
    /\ \E w \in Held("CziReader") : \E s \in openInfos :
          \E o \in EngReaderOpen(Cur, w.h, s) :
              Forwarded("CziReader::open", w, "ReaderOpen", o)

\* an operation that returns a new object made from an existing one
CreatedFrom(name, w, fn, ty) ==
    \E o \in EngCreateFrom(Cur, w.h, ty) :
        LET r == TryFrom(o.code) IN
        Step(o.st, IF r.ok THEN Add(wrappers, W(ty, o.h)) ELSE wrappers, openInfos, Closed,
             name, w.ty, 0, <<CallRec(fn, w.h, Cur, o, FALSE)>>, r)

CziReader_read_sub_block ==
    /\ InScope({"stream"})
    /\ CanCreate
    /\ \E w \in Held("CziReader") :
          CreatedFrom("CziReader::read_sub_block", w, "ReaderReadSubBlock", "SubBlock")

SubBlock_create_bitmap ==
    /\ InScope({"bitmap", "compositor", "copy"})
    /\ CanCreate
    /\ \E w \in Held("SubBlock") :
          CreatedFrom("SubBlock::create_bitmap", w, "SubBlockCreateBitmap", "Bitmap")

\* the sizes get_raw_data is called with
RawSizes == {-1, 0, 1}

\* `size as usize` sign-extends a negative i32 to a value above isize::MAX, and
\* Vec::with_capacity panics ("capacity overflow") for such a capacity
CapacityOverflow(size) == size < 0

SubBlock_get_raw_data ==
    /\ InScope({"stream", "bitmap"})
    /\ \E w \in Held("SubBlock") : \E size \in RawSizes :
          IF CapacityOverflow(size)
          THEN Step(Cur, wrappers, openInfos, Closed,
                    "SubBlock::get_raw_data", "SubBlock", size, <<>>, Panic)
          ELSE \E o \in EngUse(Cur, w.h) :
                  Step(o.st, wrappers, openInfos, Closed,
                       "SubBlock::get_raw_data", "SubBlock", size,
                       <<CallRec("SubBlockGetRawData", w.h, Cur, o, FALSE)>>,
                       TryFrom(o.code))

\* Bitmap::get_info, also reached from a LockedBitmap through its Deref
Bitmap_get_info ==
    /\ InScope({"bitmap"})
    /\ \E w \in Held("Bitmap") \cup Held("LockedBitmap") :
          \E o \in EngUse(Cur, w.h) :
              Forwarded("Bitmap::get_info", w, "BitmapGetInfo", o)

\* Bitmap::lock(self): on success self moves into the LockedBitmap; on failure
\* the `?` returns and self is dropped, which releases the bitmap
Bitmap_lock ==
    /\ InScope({"bitmap", "copy"})
    /\ \E w \in Held("Bitmap") :
          \E o1 \in EngLock(Cur, w.h) :
              LET r == TryFrom(o1.code) IN
              IF r.ok
              THEN Step(o1.st, Add(Remove(wrappers, w), W("LockedBitmap", w.h)),
                        openInfos, Closed, "Bitmap::lock", "Bitmap", 0,
                        <<CallRec("Lock", w.h, Cur, o1, FALSE)>>, r)
              ELSE \E o2 \in EngReleaseWith(o1.st, w.h, ReleaseOperation(w.ty)) :
                      Step(o2.st, Remove(wrappers, w),
                           openInfos, Closed, "Bitmap::lock", "Bitmap", 0,
                           <<CallRec("Lock", w.h, Cur, o1, FALSE),
                             ReleaseRec(w.ty, w.h, o1.st, o2, TRUE)>>, r)

\* LockedBitmap::unlock(self): the native unlock, then Ok(self.bitmap.clone());
\* self is dropped when the function returns, on both paths: Drop for
\* LockedBitmap unlocks, then its bitmap field is dropped, which releases
LockedBitmap_unlock ==
    /\ InScope({"bitmap"})
    /\ \E w \in Held("LockedBitmap") :
          \E o1 \in EngUnlock(Cur, w.h) :
          \E o2 \in EngUnlock(o1.st, w.h) :
          \E o3 \in EngReleaseWith(o2.st, w.h, ReleaseOperation(w.ty)) :
              LET r == TryFrom(o1.code) IN
              Step(o3.st,
                   IF r.ok THEN Add(Remove(wrappers, w), W("Bitmap", w.h))
                           ELSE Remove(wrappers, w),
                   openInfos, Closed, "LockedBitmap::unlock", "LockedBitmap", 0,
                   <<CallRec("Unlock", w.h, Cur, o1, FALSE),
                     CallRec("Unlock", w.h, o1.st, o2, TRUE),
                     ReleaseRec(w.ty, w.h, o2.st, o3, TRUE)>>, r)

\* X::release(&self) of every handle type; a LockedBitmap reaches
\* Bitmap::release through its Deref.  The wrapper value stays.
Release ==
    /\ InScope({"stream", "bitmap", "writer", "display"})
    /\ \E w \in BagToSet(wrappers) :
          \E o \in EngReleaseWith(Cur, w.h, ReleaseOperation(w.ty)) :
              Step(o.st, wrappers, openInfos, Closed, "release", w.ty, 0,
                   <<ReleaseRec(w.ty, w.h, Cur, o, FALSE)>>, TryFrom(o.code))

\* #[derive(Clone)] on every handle struct copies the handle
Clone ==
    /\ InScope(Scopes \ {"copy"})
    /\ Room
    /\ \E w \in BagToSet(wrappers) :
          /\ w.ty # "LockedBitmap"
          /\ Step(Cur, Add(wrappers, w), openInfos, Closed,
                  "clone", w.ty, 0, <<>>, NoResult)

\* Drop of a handle struct: self.release().ok()
DropHandle(w) ==
    \E o \in EngReleaseWith(Cur, w.h, ReleaseOperation(w.ty)) :
        Step(o.st, Remove(wrappers, w), openInfos, Closed,
             "drop", w.ty, 0, <<ReleaseRec(w.ty, w.h, Cur, o, TRUE)>>, NoResult)

\* Drop for LockedBitmap: the native unlock, result ignored; then the bitmap
\* field is dropped
DropLockedBitmap(w) ==
    \E o1 \in EngUnlock(Cur, w.h) :
    \E o2 \in EngReleaseWith(o1.st, w.h, ReleaseOperation(w.ty)) :
        Step(o2.st, Remove(wrappers, w), openInfos, Closed,
             "drop", w.ty, 0,
             <<CallRec("Unlock", w.h, Cur, o1, TRUE),
               ReleaseRec(w.ty, w.h, o1.st, o2, TRUE)>>, NoResult)

\* Drop for CziWriter: self.close().ok(); self.release().ok()
DropCziWriter(w) ==
    \E o1 \in EngWriterClose(Cur, w.h) :
    \E o2 \in EngReleaseWith(o1.st, w.h, ReleaseOperation(w.ty)) :
        Step(o2.st, Remove(wrappers, w), openInfos, Closed,
             "drop", w.ty, 0,
             <<CallRec("WriterClose", w.h, Cur, o1, TRUE),
               ReleaseRec(w.ty, w.h, o1.st, o2, TRUE)>>, NoResult)

Drop ==
    /\ InScope(Scopes)
    /\ \E w \in BagToSet(wrappers) :
          CASE w.ty = "LockedBitmap" -> DropLockedBitmap(w)
            [] w.ty = "CziWriter" -> DropCziWriter(w)
            [] OTHER -> DropHandle(w)

CziWriter_create ==
    /\ InScope({"writer"})
    /\ \E hasNul \in BOOLEAN :
          IF hasNul
          THEN NulRejected("CziWriter::create", "CziWriter")
          ELSE /\ CanCreate
               /\ \E o \in EngCreate(Cur, "CziWriter") :
                     Created("CziWriter::create", "CziWriter", o)

CziWriter_init ==
    /\ InScope({"writer"})
    /\ \E w \in Held("CziWriter") : \E s \in Held("OutputStream") : \E hasNul \in BOOLEAN :
          IF hasNul
          THEN NulRejected("CziWriter::init", "CziWriter")
          ELSE \E o \in EngWriterInit(Cur, w.h, s.h) :
                  Forwarded("CziWriter::init", w, "WriterCreate", o)

CziWriter_add_sub_block ==
    /\ InScope({"writer"})
    /\ \E w \in Held("CziWriter") : \E o \in EngWriterAdd(Cur, w.h) :
          Forwarded("CziWriter::add_sub_block", w, "WriterAddSubBlock", o)

CziWriter_add_attachement ==
    /\ InScope({"writer"})
    /\ \E w \in Held("CziWriter") : \E o \in EngWriterAdd(Cur, w.h) :
          Forwarded("CziWriter::add_attachement", w, "WriterAddAttachment", o)

CziWriter_write_metadata ==
    /\ InScope({"writer"})
    /\ \E w \in Held("CziWriter") : \E o \in EngWriterAdd(Cur, w.h) :
          Forwarded("CziWriter::write_metadata", w, "WriterWriteMetadata", o)

CziWriter_close ==
    /\ InScope({"writer"})
    /\ \E w \in Held("CziWriter") : \E o \in EngWriterClose(Cur, w.h) :
          Step(o.st, wrappers, openInfos, Closed \cup {w.h},
               "CziWriter::close", "CziWriter", 0,
               <<CallRec("WriterClose", w.h, Cur, o, FALSE)>>, TryFrom(o.code))

\* ------------------------------------------------- engine-allocated memory
\* A pointer value 0 stands for a pointer that is not a block of the engine's
\* allocator (null, or memory of Rust's own allocator).
FreshBlock(hp) == CHOOSE b \in Blocks : hp[b] = "none" /\ \A g \in Blocks : hp[g] = "none" => b <= g

\* the blocks some value still points to; the others are forgotten
HeapCur == [b \in Blocks |-> IF b \in {v.buf : v \in BagToSet(values)} THEN heap[b] ELSE "none"]

Val(ty, b) == [ty |-> ty, buf |-> b]
ValRoom == BagCardinality(values) < MaxWrappers
CanAlloc == ValRoom /\ \E b \in Blocks : HeapCur[b] = "none"
ValuesOf(ty) == {v \in BagToSet(values) : v.ty = ty}

\* one deallocation: the deallocator ("libCZI_Free" or Rust's global
\* allocator, "rust_dealloc"), the block (0: not a block of the engine) and
\* the block's state when it was made
FreeRec(by, b, hp) == [by |-> by, buf |-> b, was |-> IF b = 0 THEN "foreign" ELSE hp[b]]
AfterFree(hp, b) == IF b = 0 THEN hp ELSE [hp EXCEPT ![b] = "freed"]

BufStepOut(hp, vs, name, ty, arg, fr, r, o) ==
    /\ UNCHANGED <<scope, eng, wrappers, openInfos, closeCalled>>
    /\ heap' = hp
    /\ values' = vs
    /\ frees' = fr
    /\ op' = [name |-> name, ty |-> ty, arg |-> arg]
    /\ calls' = <<>>
    /\ ret' = r
    /\ out' = o

BufStep(hp, vs, name, ty, arg, fr, r) == BufStepOut(hp, vs, name, ty, arg, fr, r, <<>>)

\* a native call that fills a struct with a pointer to a block it allocated;
\* try_from(code)? decides whether the value is built
Obtained(name, ty) ==
    \E code \in {0, 1} :
        IF code = 0
        THEN /\ CanAlloc
             /\ LET b == FreshBlock(HeapCur) IN
                BufStep([HeapCur EXCEPT ![b] = "live"], Add(values, Val(ty, b)),
                        name, ty, 0, <<>>, TryFrom(code))
        ELSE BufStep(HeapCur, values, name, ty, 0, <<>>, TryFrom(code))

MetadataSegment_get_metadata_as_xml ==
    /\ InScope({"buffer"})
    /\ Obtained("MetadataSegment::get_metadata_as_xml", "MetadataAsXml")

\* the four strings of a build information are allocated, copied and freed
\* together: one block stands for them
LibCZIBuildInformation_get ==
    /\ InScope({"buffer"})
    /\ Obtained("LibCZIBuildInformation::get", "LibCZIBuildInformation")

\* name and description of a stream class: one block stands for both
get_stream_classes_count ==
    /\ InScope({"buffer"})
    /\ Obtained("get_stream_classes_count", "InputStreamClassInfo")

\* an attachment info carries an engine-allocated name only when the name
\* overflowed the fixed-size array
Attachment_get_info ==
    /\ InScope({"buffer"})
    /\ \E name_overflow \in BOOLEAN :
          IF name_overflow
          THEN Obtained("Attachment::get_info", "AttachmentInfo")
          ELSE /\ ValRoom
               /\ BufStep(HeapCur, Add(values, Val("AttachmentInfo", 0)),
                          "Attachment::get_info", "AttachmentInfo", 0, <<>>, TryFrom(0))

\* #[derive(Clone)] copies the pointer
CloneValue ==
    /\ InScope({"buffer"})
    /\ ValRoom
    /\ \E v \in BagToSet(values) :
          /\ v.ty \notin {"RustOwned", "PixelView"}
          /\ BufStep(HeapCur, Add(values, v), "clone", v.ty, 0, <<>>, NoResult)

\* MetadataAsXml::get_data: Vec::from_raw_parts over the engine's block; the
\* bytes are now owned by the returned String, or by the FromUtf8Error inside
\* the returned error: a Rust value that deallocates them when dropped
MetadataAsXml_get_data ==
    /\ InScope({"buffer"})
    /\ ValRoom
    /\ \E v \in ValuesOf("MetadataAsXml") : \E validUtf8 \in BOOLEAN :
          BufStepOut(HeapCur, Add(values, Val("RustOwned", v.buf)),
                     "MetadataAsXml::get_data", v.ty, 0, <<>>,
                     IF validUtf8 THEN TryFrom(0) ELSE Utf8Error,
                     [buf |-> v.buf, was |-> HeapCur[v.buf]])

\* AddSubBlockInfo::new: data.to_vec() wrapped in ManuallyDrop, an allocation
\* the struct points to and nothing frees (the struct has no Drop)
AddSubBlockInfo_new ==
    /\ InScope({"buffer"})
    /\ CanAlloc
    /\ LET b == FreshBlock(HeapCur) IN
       BufStep([HeapCur EXCEPT ![b] = "live"], Add(values, Val("AddSubBlockInfo", b)),
               "AddSubBlockInfo::new", "AddSubBlockInfo", 0, <<>>, NoResult)

\* AddSubBlockInfo::get_data (get_metadata and get_attachment alike, and
\* CompositionChannelInfo::get_look_up_table): Vec::from_raw_parts over the
\* allocation the struct points to
AddSubBlockInfo_get_data ==
    /\ InScope({"buffer"})
    /\ ValRoom
    /\ \E v \in ValuesOf("AddSubBlockInfo") :
          BufStepOut(HeapCur, Add(values, Val("RustOwned", v.buf)),
                     "AddSubBlockInfo::get_data", v.ty, 0, <<>>, NoResult,
                     [buf |-> v.buf, was |-> HeapCur[v.buf]])

\* AttachmentInfo::get_name_in_case_of_overflow: CString::from_raw takes the
\* engine's block; the temporary CString is dropped when the statement ends,
\* on the Ok path and on the to_str()? path alike
AttachmentInfo_get_name_in_case_of_overflow ==
    /\ InScope({"buffer"})
    /\ \E v \in ValuesOf("AttachmentInfo") : \E validUtf8 \in BOOLEAN :
          /\ v.buf # 0
          /\ BufStep(AfterFree(HeapCur, v.buf), values,
                     "AttachmentInfo::get_name_in_case_of_overflow", v.ty, 0,
                     <<FreeRec("rust_dealloc", v.buf, HeapCur)>>,
                     IF validUtf8 THEN TryFrom(0) ELSE Utf8Error)

\* allocate_memory::<T>(size): the engine writes the pointer to the block it
\* allocated into the local variable `ptr` (a copy of data.as_mut_ptr());
\* `data`, which is returned, stays uninitialised: the pointer it holds once
\* assume_init is applied is any value
allocate_memory ==
    /\ InScope({"buffer"})
    /\ \E code \in {0, 3} :
          IF code = 0
          THEN /\ CanAlloc
               /\ \E uninit \in {0} \cup Blocks :
                     LET b == FreshBlock(HeapCur) IN
                     BufStepOut([HeapCur EXCEPT ![b] = "live"],
                                Add(values, Val("MemoryAllocation", uninit)),
                                "allocate_memory", "MemoryAllocation", 0, <<>>, TryFrom(code),
                                [block |-> b, value |-> uninit])
          ELSE BufStep(HeapCur, values, "allocate_memory", "MemoryAllocation", 0, <<>>,
                       TryFrom(code))

\* free(data): Ptr::as_mut_ptr is `&self.0 as *const _ as *mut _`, the address
\* of the field inside the Rust value, and that address goes to libCZI_Free;
\* data is consumed
free ==
    /\ InScope({"buffer"})
    /\ \E v \in ValuesOf("MemoryAllocation") :
          BufStep(HeapCur, Remove(values, v), "free", v.ty, v.buf,
                  <<FreeRec("libCZI_Free", 0, HeapCur)>>, NoResult)

\* the pointer each Drop implementation passes to a deallocator
\* MetadataAsXml: libCZI_Free(Box::into_raw(Box::new(self.0.data))), a pointer
\* to a fresh Rust box that holds the data pointer
DropFrees(v, hp) ==
    CASE v.ty = "MetadataAsXml" -> <<FreeRec("libCZI_Free", 0, hp)>>
      [] v.ty = "AttachmentInfo" ->
            IF v.buf # 0 THEN <<FreeRec("libCZI_Free", v.buf, hp)>> ELSE <<>>
      [] v.ty = "RustOwned" -> <<FreeRec("rust_dealloc", v.buf, hp)>>
      [] v.ty \in {"MemoryAllocation", "AddSubBlockInfo"} -> <<>>
      [] OTHER -> <<FreeRec("libCZI_Free", v.buf, hp)>>

DropValue ==
    /\ InScope({"buffer"})
    /\ \E v \in BagToSet(values) :
          LET fr == DropFrees(v, HeapCur) IN
          BufStep(IF fr = <<>> THEN HeapCur ELSE AfterFree(HeapCur, fr[1].buf),
                  Remove(values, v), "drop", v.ty, 0, fr, NoResult)

\* ------------------------------------------------------ extended statistics
\* SubBlockStatisticsInteropEx ends in the variable-size array
\* per_scenes_bounding_boxes; the struct itself has room for this many of
\* its elements
EntriesInStruct == 0

Min(a, b) == IF a < b THEN a ELSE b

\* libCZI_ReaderGetStatisticsEx on a document with n scenes and a stated
\* capacity c: writes min(c, n) per-scene elements behind the fixed part of
\* the struct it is given, and stores n in the in/out count
EngGetStatisticsEx(n, c) == [written |-> Min(c, n), available |-> n]

\* CziReader::get_statistics_ex(c): the struct handed to the engine is one
\* MaybeUninit<SubBlockStatisticsInteropEx> whatever c is; the value returned
\* is that struct, so it carries the elements that lie inside it
CziReader_get_statistics_ex ==
    /\ InScope({"stats"})
    /\ \E n \in 0 .. MaxScenes : \E c \in 0 .. MaxScenes : \E code \in {0, 1} :
          /\ UNCHANGED <<scope, eng, wrappers, openInfos, closeCalled, heap, values, frees>>
          /\ op' = [name |-> "CziReader::get_statistics_ex", ty |-> "CziReader", arg |-> c]
          /\ calls' = <<>>
          /\ ret' = TryFrom(code)
          /\ out' = IF code # 0 THEN <<>>
                    ELSE LET e == EngGetStatisticsEx(n, c) IN
                         [scenes  |-> n,
                          count   |-> e.available,
                          entries |-> Min(e.written, EntriesInStruct),
                          beyond  |-> e.written - Min(e.written, EntriesInStruct)]

\* --------------------------------------------------------- directory lookup
\* the handle value the engine writes when there is no object
kInvalidObjectHandle == 0

\* an index with an entry in a directory of n entries
Present(index, n) == 0 <= index /\ index < n

\* libCZI_ReaderReadSubBlock / libCZI_ReaderReadAttachment: "If there is no
\* sub-block present (for the specified index) then the function returns
\* 'LibCZIApi_ErrorCode_OK', but the 'sub_block_object' is set to
\* 'kInvalidObjectHandle'"; reading a present entry may fail
EngReadEntry(index, n) ==
    IF Present(index, n)
    THEN {[code |-> 0, handle |-> 1], [code |-> 50, handle |-> kInvalidObjectHandle]}
    ELSE {[code |-> 0, handle |-> kInvalidObjectHandle]}

\* libCZI_TryGetSubBlockInfoForIndex / libCZI_ReaderGetAttachmentInfoFromDirectory:
\* "If the index is not valid, then the function returns
\* 'LibCZIApi_ErrorCode_IndexOutOfRange'"
EngEntryInfo(index, n) ==
    IF Present(index, n) THEN {[code |-> 0, handle |-> kInvalidObjectHandle]}
    ELSE {[code |-> 4, handle |-> kInvalidObjectHandle]}

\* the indices the lookups are called with
Indices == -1 .. MaxEntries

\* a lookup on an opened reader whose directory has n entries: try_from(code)?,
\* then the out-parameter is wrapped as it is
Lookup(name, n, index, o) ==
    /\ UNCHANGED <<scope, eng, wrappers, openInfos, closeCalled, heap, values, frees>>
    /\ op' = [name |-> name, ty |-> "CziReader", arg |-> index]
    /\ calls' = <<>>
    /\ ret' = TryFrom(o.code)
    /\ out' = [entries |-> n, code |-> o.code,
               handle |-> IF TryFrom(o.code).ok THEN o.handle ELSE kInvalidObjectHandle]

Directory_read_sub_block ==
    /\ InScope({"directory"})
    /\ \E n \in 0 .. MaxEntries : \E index \in Indices : \E o \in EngReadEntry(index, n) :
          Lookup("CziReader::read_sub_block", n, index, o)

Directory_read_attachment ==
    /\ InScope({"directory"})
    /\ \E n \in 0 .. MaxEntries : \E index \in Indices : \E o \in EngReadEntry(index, n) :
          Lookup("CziReader::read_attachment", n, index, o)

CziReader_try_get_sub_block_info_for_index ==
    /\ InScope({"directory"})
    /\ \E n \in 0 .. MaxEntries : \E index \in Indices : \E o \in EngEntryInfo(index, n) :
          Lookup("CziReader::try_get_sub_block_info_for_index", n, index, o)

CziReader_get_attachment_info_from_directory ==
    /\ InScope({"directory"})
    /\ \E n \in 0 .. MaxEntries : \E index \in Indices : \E o \in EngEntryInfo(index, n) :
          Lookup("CziReader::get_attachment_info_from_directory", n, index, o)

\* the type of the value a read lookup returns
ReadResultType(name) ==
    IF name = "CziReader::read_sub_block" THEN "SubBlock" ELSE "Attachment"

\* The SubBlock or Attachment a read lookup returned is dropped: Drop calls
\* self.release().ok() with the handle the value holds, whatever it is.  The
\* sentinel is not a pointer to an object: the engine rejects it or operates
\* on whatever it finds there.
DropReadResult ==
    /\ InScope({"directory"})
    /\ op.name \in {"CziReader::read_sub_block", "CziReader::read_attachment"}
    /\ ret.ok
    /\ \E o \in IF out.handle = kInvalidObjectHandle THEN Stale(eng)
                 ELSE {Outcome(0, eng, 0, FALSE)} :
          /\ UNCHANGED <<scope, eng, wrappers, openInfos, closeCalled, heap, values, frees>>
          /\ op' = [name |-> "drop", ty |-> ReadResultType(op.name), arg |-> out.handle]
          /\ calls' = <<[fn |-> "Release", h |-> out.handle, code |-> o.code,
                         rc |-> IF out.handle = kInvalidObjectHandle THEN 0 ELSE 1,
                         lock |-> 0, ws |-> "NA", inDrop |-> TRUE, touched |-> o.touched,
                         native |-> ReleaseOperation(ReadResultType(op.name)),
                         kind |-> ReadResultType(op.name)]>>
          /\ ret' = NoResult
          /\ out' = <<>>

\* ------------------------------------------------------- raw-data copy-out
\* the raw data of a sub-block or attachment: n bytes
RawData(n) == [i \in 1 .. n |-> i]

\* Vec::<u8>::with_capacity(size): an allocation of `cap` bytes of which
\* `len` are the vector's elements; mem is what the allocation holds
VecWithCapacity(size) == [cap |-> size, len |-> 0, mem |-> <<>>]

\* the elements a Vec gives access to
VecContents(v) == SubSeq(v.mem, 1, v.len)

\* libCZI_SubBlockGetRawData / libCZI_AttachmentGetRawData: "At most the
\* initial value of 'size' bytes are copied to the buffer", "On output, the
\* value of 'size' is the actual size of the data"
EngGetRawData(bytes, size) ==
    [copied |-> SubSeq(bytes, 1, Min(size, Len(bytes))), size |-> Len(bytes)]

\* get_raw_data(size): the engine writes through data.as_mut_ptr(); the
\* vector's length is not touched before it is returned
GetRawData(name, ty) ==
    /\ \E n \in 0 .. MaxLen : \E size \in 0 .. MaxLen : \E code \in {0, 1} :
          LET data == VecWithCapacity(size)
              e == EngGetRawData(RawData(n), size)
              filled == [data EXCEPT !.mem = e.copied]
          IN  /\ UNCHANGED <<scope, eng, wrappers, openInfos, closeCalled, heap, values, frees>>
              /\ op' = [name |-> name, ty |-> ty, arg |-> size]
              /\ calls' = <<>>
              /\ ret' = TryFrom(code)
              /\ out' = IF code # 0 THEN [n |-> n, size |-> 0, data |-> <<>>]
                        ELSE [n |-> n, size |-> e.size, data |-> VecContents(filled)]

SubBlock_get_raw_data_copy ==
    /\ InScope({"rawdata"})
    /\ GetRawData("SubBlock::get_raw_data", "SubBlock")

Attachment_get_raw_data ==
    /\ InScope({"rawdata"})
    /\ GetRawData("Attachment::get_raw_data", "Attachment")

\* ------------------------------------------------------- pixel-buffer views
\* BitmapLockInfo::get_data_roi: Vec::from_raw_parts over the locked bitmap's
\* pixel buffer, an owned Vec<u8> with no tie to the lock.  lock_info is a
\* public field of LockedBitmap.  The behaviours take one view at a time.
ViewStep(vs, name, fr, o) ==
    /\ UNCHANGED <<scope, openInfos, heap>>
    /\ eng' = Cur
    /\ wrappers' = wrappers
    /\ closeCalled' = Closed
    /\ values' = vs
    /\ frees' = fr
    /\ op' = [name |-> name, ty |-> "PixelView", arg |-> 0]
    /\ calls' = <<>>
    /\ ret' = NoResult
    /\ out' = o

BitmapLockInfo_get_data_roi ==
    /\ InScope({"bitmap"})
    /\ ValuesOf("PixelView") = {}
    /\ \E w \in Held("LockedBitmap") :
          ViewStep(Add(values, Val("PixelView", w.h)), "BitmapLockInfo::get_data_roi", <<>>, <<>>)

\* the program reads the pixels through a Vec<u8> it got from get_data_roi
\* (lib.rs, test_read_bytes: bytes.as_slice()[..100]); the bitmap's reference
\* count and lock count at that moment are recorded
ReadPixels ==
    /\ InScope({"bitmap"})
    /\ \E v \in ValuesOf("PixelView") :
          ViewStep(values, "read pixels", <<>>,
                   [h |-> v.buf, rc |-> Cur.rc[v.buf], lock |-> Cur.lockCnt[v.buf]])

\* the Vec<u8> is dropped: Rust's allocator deallocates the pixel buffer
DropPixelView ==
    /\ InScope({"bitmap"})
    /\ \E v \in ValuesOf("PixelView") :
          ViewStep(Remove(values, v), "drop",
                   <<[by |-> "rust_dealloc", buf |-> v.buf, was |-> "pixels"]>>, <<>>)

\* ------------------------------------------------ multi-channel composition
MaxChannels == 2

\* channel_info: CompositionChannelInfo is one struct; channel_info.as_ptr()
\* points at it
ChannelInfosPassed == 1

\* the engine reads channel_count elements of each array.  Reading past the
\* end of an array is undefined: the call fails or produces a bitmap from
\* whatever it read.
EngCompose(st, src, channel_count) ==
    IF channel_count > Len(src) \/ channel_count > ChannelInfosPassed
    THEN {Outcome(1, st, 0, TRUE), Outcome(0, NewObject(st, "Bitmap"), FreshHandle(st), TRUE)}
    ELSE IF channel_count <= 0 THEN {Outcome(1, st, 0, FALSE)}
    ELSE IF \E i \in 1..channel_count : ~Live(st, src[i].h) THEN StaleCreate(st)
    ELSE {Outcome(0, NewObject(st, "Bitmap"), FreshHandle(st), FALSE),
          Outcome(1, st, 0, FALSE)}

\* source_bitmaps: Vec<Bitmap> is moved in and dropped when the function
\* returns: every element releases its bitmap, in order
DropAll(st, src, cs) ==
    LET dropped[i \in 0..Len(src)] ==
            IF i = 0
            THEN {[st |-> st, cs |-> cs]}
            ELSE UNION {{[st |-> o.st,
                          cs |-> Append(p.cs, ReleaseRec(src[i].ty, src[i].h, p.st, o, TRUE))] :
                            o \in EngReleaseWith(p.st, src[i].h, ReleaseOperation(src[i].ty))} :
                        p \in dropped[i - 1]}
    IN  dropped[Len(src)]

RECURSIVE RemoveAll(_, _)
RemoveAll(b, src) == IF src = <<>> THEN b ELSE RemoveAll(Remove(b, Head(src)), Tail(src))

\* the vectors of bitmaps the program can pass: values it holds
SourceBitmaps ==
    {src \in UNION {[1..n -> Held("Bitmap")] : n \in 0..MaxWrappers} :
        \A w \in Held("Bitmap") :
            Cardinality({i \in DOMAIN src : src[i] = w}) <= CopiesIn(w, wrappers)}

compositor_do_multi_channel_composition ==
    /\ InScope({"compositor"})
    /\ FreeHandles(Cur) # {}
    /\ \E src \in SourceBitmaps : \E channel_count \in 1..MaxChannels :
       \E o \in EngCompose(Cur, src, channel_count) :
       \E d \in DropAll(o.st, src, <<CreateRec(o)>>) :
          LET r == TryFrom(o.code) IN
          StepOut(d.st,
                  IF r.ok THEN Add(RemoveAll(wrappers, src), W("Bitmap", o.h))
                          ELSE RemoveAll(wrappers, src),
                  openInfos, Closed,
                  "compositor_do_multi_channel_composition", "Bitmap", channel_count,
                  d.cs, r,
                  [channel_count |-> channel_count, bitmaps |-> Len(src),
                   infos |-> ChannelInfosPassed])

\* ------------------------------------------------- engine-allocated strings
\* The native call puts a pointer to a string it allocated into the
\* out-parameter; CStr::from_ptr(ptr).to_str()? returns the Utf8Error before
\* libCZI_Free(ptr) is reached; on the Ok path the string is copied with
\* to_owned() and the block is freed.
EngineString(name, ty) ==
    \E code \in {0, 1} : \E valid_utf8 \in BOOLEAN :
        IF code # 0
        THEN BufStepOut(HeapCur, values, name, ty, 0, <<>>, TryFrom(code),
                        [code |-> code, block |-> 0, valid_utf8 |-> valid_utf8])
        ELSE /\ \E b \in Blocks : HeapCur[b] = "none"
             /\ LET b == FreshBlock(HeapCur)
                    hp == [HeapCur EXCEPT ![b] = "live"]
                    o == [code |-> code, block |-> b, valid_utf8 |-> valid_utf8]
                IN  IF valid_utf8
                    THEN BufStepOut(AfterFree(hp, b), values, name, ty, 0,
                                    <<FreeRec("libCZI_Free", b, hp)>>, TryFrom(code), o)
                    ELSE BufStepOut(hp, values, name, ty, 0, <<>>, Utf8Error, o)

CziReader_get_pyramid_statistics ==
    /\ InScope({"strings"})
    /\ EngineString("CziReader::get_pyramid_statistics", "CziReader")

CziDocumentInfo_get_general_document_info ==
    /\ InScope({"strings"})
    /\ EngineString("CziDocumentInfo::get_general_document_info", "CziDocumentInfo")

CziDocumentInfo_get_dimension_info ==
    /\ InScope({"strings"})
    /\ EngineString("CziDocumentInfo::get_dimension_info", "CziDocumentInfo")

\* --------------------------------------------------------- display settings
DisplaySettings_get_channel_display_settings ==
    /\ InScope({"display"})
    /\ CanCreate
    /\ \E w \in Held("DisplaySettings") :
          CreatedFrom("DisplaySettings::get_channel_display_settings", w,
                      "DisplaySettingsGetChannelDisplaySettings", "ChannelDisplaySettings")

\* ------------------------------------------------------ LockedBitmap::copy
\* the size in bytes of a LockedBitmap value: the bitmap handle and the lock
\* info (two pointers, a stride and a size)
SizeOfLockedBitmap == 40

\* the strides and heights copy is called with
Strides == {16, 64}
MaxHeight == 2

\* libCZI_BitmapCopyTo writes stride * height bytes of pixel data to the
\* destination, or rejects the call
EngCopyTo(st, h) ==
    IF ~Live(st, h) THEN Stale(st)
    ELSE {Outcome(0, st, 0, FALSE), Outcome(1, st, 0, FALSE)}

\* LockedBitmap::copy: the destination is data.as_mut_ptr(), the storage of
\* one MaybeUninit<LockedBitmap> on the stack.  On success
\* data.assume_init() reads that storage as a LockedBitmap, so its handle g is
\* whatever bytes lie there; unlock(self) is called on it: a native unlock of
\* g, then the drop of that value unlocks and releases g, and Ok carries a
\* Bitmap holding g.
LockedBitmap_copy ==
    /\ InScope({"copy"})
    /\ Room
    /\ \E w \in Held("LockedBitmap") : \E stride \in Strides : \E height \in 1..MaxHeight :
       \E o \in EngCopyTo(Cur, w.h) :
          LET r == TryFrom(o.code)
              info == [buffer |-> SizeOfLockedBitmap, needed |-> stride * height,
                       owned |-> TRUE, handle |-> 0]
          IN  IF ~r.ok
              THEN StepOut(o.st, wrappers, openInfos, Closed,
                           "LockedBitmap::copy", "LockedBitmap", 0,
                           <<CallRec("BitmapCopyTo", w.h, Cur, o, FALSE)>>, r, info)
              ELSE \E g \in Handles :
                   \E o1 \in EngUnlock(o.st, g) :
                   \E o2 \in EngUnlock(o1.st, g) :
                   \E o3 \in EngReleaseWith(o2.st, g, ReleaseOperation("Bitmap")) :
                      LET r1 == TryFrom(o1.code) IN
                      StepOut(o3.st,
                              IF r1.ok THEN Add(wrappers, W("Bitmap", g)) ELSE wrappers,
                              openInfos, Closed,
                              "LockedBitmap::copy", "LockedBitmap", 0,
                              <<CallRec("BitmapCopyTo", w.h, Cur, o, FALSE),
                                CallRec("Unlock", g, o.st, o1, FALSE),
                                CallRec("Unlock", g, o1.st, o2, TRUE),
                                ReleaseRec("Bitmap", g, o2.st, o3, TRUE)>>,
                              r1, [info EXCEPT !.handle = g])

Next ==
    \/ CziReader_create
    \/ InputStream_create_from_file_wide
    \/ InputStream_create_from_file_utf8
    \/ OutputStream_create_for_file_wide
    \/ OutputStream_create_for_file_utf8
    \/ ReaderOpenInfo_new
    \/ ReaderOpenInfo_get_stream
    \/ ReaderOpenInfo_drop
    \/ CziReader_open
    \/ CziReader_read_sub_block
    \/ SubBlock_create_bitmap
    \/ SubBlock_get_raw_data
    \/ Bitmap_get_info
    \/ Bitmap_lock
    \/ LockedBitmap_unlock
    \/ Release
    \/ Clone
    \/ Drop
    \/ CziWriter_create
    \/ CziWriter_init
    \/ CziWriter_add_sub_block
    \/ CziWriter_add_attachement
    \/ CziWriter_write_metadata
    \/ CziWriter_close
    \/ MetadataSegment_get_metadata_as_xml
    \/ LibCZIBuildInformation_get
    \/ get_stream_classes_count
    \/ Attachment_get_info
    \/ CloneValue
    \/ MetadataAsXml_get_data
    \/ AttachmentInfo_get_name_in_case_of_overflow
    \/ DropReadResult
    \/ AddSubBlockInfo_new
    \/ AddSubBlockInfo_get_data
    \/ LockedBitmap_copy
    \/ compositor_do_multi_channel_composition
    \/ DisplaySettings_get_channel_display_settings
    \/ CziReader_get_pyramid_statistics
    \/ CziDocumentInfo_get_general_document_info
    \/ CziDocumentInfo_get_dimension_info
    \/ BitmapLockInfo_get_data_roi
    \/ ReadPixels
    \/ DropPixelView
    \/ DropValue
    \/ allocate_memory
    \/ free
    \/ CziReader_get_statistics_ex
    \/ Directory_read_sub_block
    \/ Directory_read_attachment
    \/ CziReader_try_get_sub_block_info_for_index
    \/ CziReader_get_attachment_info_from_directory
    \/ SubBlock_get_raw_data_copy
    \/ Attachment_get_raw_data

Spec == Init /\ [][Next]_vars

\* ------------------------------------------------------- the writer pipeline
\* Sequences of OutputStream creation and CziWriter::create, init,
\* add_sub_block, add_attachement, write_metadata and close only.
InitWriter == Init /\ scope = "writer"

NextWriter ==
    \/ OutputStream_create_for_file_wide
    \/ OutputStream_create_for_file_utf8
    \/ CziWriter_create
    \/ CziWriter_init
    \/ CziWriter_add_sub_block
    \/ CziWriter_add_attachement
    \/ CziWriter_write_metadata
    \/ CziWriter_close

SpecWriter == InitWriter /\ [][NextWriter]_vars

\* ------------------------------------------------------ try_from on its own
\* the codes try_from is applied to: a range around zero and the two ends of
\* c_int
Codes == (-MaxCode .. MaxCode) \cup {-2147483647 - 1, 2147483647}

ApplyTryFrom ==
    \E code \in Codes :
        Step(eng, wrappers, openInfos, closeCalled,
             "LibCZIApiError::try_from", "none", code, <<>>, TryFrom(code))

InitTryFrom ==
    /\ scope = "try_from"
    /\ eng = EngInit
    /\ wrappers = EmptyBag
    /\ openInfos = {}
    /\ closeCalled = {}
    /\ op = [name |-> "init", ty |-> "none", arg |-> 0]
    /\ calls = <<>>
    /\ ret = NoResult
    /\ heap = [b \in Blocks |-> "none"]
    /\ values = EmptyBag
    /\ frees = <<>>
    /\ out = <<>>

SpecTryFrom == InitTryFrom /\ [][ApplyTryFrom]_vars

\* ------------------------------------------- Dimension::vec_from_bitflags
\* the enum's variants by discriminant, Z = 1 .. B = 9
DimensionNames == <<"Z", "C", "T", "R", "S", "I", "H", "V", "B">>

\* a mutation of try_from that numbers the variants from zero
DimensionTryFromZeroBased(dimension) ==
    IF dimension \in 0..8
    THEN [ok |-> TRUE, dim |-> DimensionNames[dimension + 1]]
    ELSE [ok |-> FALSE, dim |-> "none"]

\* impl TryFrom<i32> for Dimension
DimensionTryFrom(dimension) ==
    IF dimension \in 1..9
    THEN [ok |-> TRUE, dim |-> DimensionNames[dimension]]
    ELSE [ok |-> FALSE, dim |-> "none"]

\* the body of `for i in 1..=9`: test the lowest bit, push, shift right;
\* expect() panics when try_from returns Err
RECURSIVE VecLoop(_, _, _)
VecLoop(i, bit_flags, dimensions) ==
    IF i > 9
    THEN [panicked |-> FALSE, dims |-> dimensions]
    ELSE IF bit_flags % 2 > 0
         THEN LET d == DimensionTryFrom(i)
              IN  IF d.ok
                  THEN VecLoop(i + 1, bit_flags \div 2, Append(dimensions, d.dim))
                  ELSE [panicked |-> TRUE, dims |-> dimensions]
         ELSE VecLoop(i + 1, bit_flags \div 2, dimensions)

vec_from_bitflags(bit_flags) == VecLoop(1, bit_flags, <<>>)

\* the words the function is applied to: every word of the low MaxFlagBits
\* bits, and words with bits up to bit 30 set
MaxFlagBits == 10
BitFlags ==
    (0 .. 2^MaxFlagBits - 1)
        \cup {2^30, 2^30 + 2^8, 2^30 + 2^20 + 2^8 + 6, 2147483647, 2147483647 - 511}

ApplyVecFromBitflags ==
    /\ op.name = "input"
    /\ LET r == vec_from_bitflags(op.arg)
       IN  BufStepOut(heap, values, "Dimension::vec_from_bitflags", "Dimension", op.arg,
                      <<>>, IF r.panicked THEN Panic ELSE NoResult, r.dims)

InitVecFromBitflags ==
    /\ scope = "vec_from_bitflags"
    /\ eng = EngInit
    /\ wrappers = EmptyBag
    /\ openInfos = {}
    /\ closeCalled = {}
    /\ \E f \in BitFlags : op = [name |-> "input", ty |-> "u32", arg |-> f]
    /\ calls = <<>>
    /\ ret = NoResult
    /\ heap = [b \in Blocks |-> "none"]
    /\ values = EmptyBag
    /\ frees = <<>>
    /\ out = <<>>

SpecVecFromBitflags == InitVecFromBitflags /\ [][ApplyVecFromBitflags]_vars

\* ================================================================== claims
\* the native calls of the last operation
NativeCalls == {calls[i] : i \in DOMAIN calls}

\* C1: bitmap lock and unlock calls balance.  Every native unlock issued for a
\* live bitmap answers a successful lock that is still outstanding (the
\* bitmap's lock count is at least one when the call is made), so the number
\* of unlock calls never exceeds the number of successful lock calls: exactly
\* one unlock per successful lock.
C1_UnlockAnswersALock ==
    \A c \in NativeCalls : (c.fn = "Unlock" /\ c.rc > 0) => c.lock > 0

\* C2: a bitmap is never released while it is still locked: a native release
\* of a live bitmap is issued only when its lock count is zero.
C2_ReleaseOnlyUnlocked ==
    \A c \in NativeCalls : (c.fn = "Release" /\ c.rc > 0) => c.lock = 0

\* C3: release is reference-counted correctly: a native release is issued on
\* a handle only while a reference acquired for it is still outstanding
\* (reference count at least one), so the releases issued on a handle never
\* exceed the references acquired for it.
C3_ReleaseWithinReferences ==
    \A c \in NativeCalls : c.fn = "Release" => c.rc > 0

C5_NoAutoFinalize ==
    \A c \in NativeCalls :
        (c.fn = "WriterClose" /\ c.inDrop /\ c.rc > 0 /\ c.ws = "Initialized")
            => c.h \in closeCalled

WriterMutations ==
    {"CziWriter::add_sub_block", "CziWriter::add_attachement", "CziWriter::write_metadata"}

\* the steps of the writer pipeline; "NA" is a handle that is not a writer
WriterStep(a, b) ==
    \/ a = b
    \/ a = "NA" /\ b = "Created"
    \/ a = "Created" /\ b = "Initialized"
    \/ a = "Initialized" /\ b = "Finalized"

\* C6: writer mutations are valid only in the Initialized state: over every
\* sequence of CziWriter::create, init, add_sub_block, add_attachement,
\* write_metadata and close, each step leaves every writer's state unchanged
\* or moves it one step along Created -> Initialized -> Finalized, and a
\* mutation that returns Ok was made on a writer that was Initialized.
C6_WriterPipeline ==
    [][ /\ \A h \in Handles : WriterStep(eng.wstate[h], eng'.wstate[h])
        /\ (op'.name \in WriterMutations /\ ret'.ok) =>
              /\ calls' # <<>>
              /\ calls'[1].ws = "Initialized"
              /\ eng.wstate[calls'[1].h] = "Initialized"
              /\ eng'.wstate[calls'[1].h] = "Initialized" ]_vars

\* a mutation succeeded on an Initialized writer
C6_Witness ==
    /\ op.name \in WriterMutations
    /\ ret.ok
    /\ calls # <<>>
    /\ calls[1].ws = "Initialized"

\* C7: native return codes map to the error taxonomy as a total function:
\* try_from returns Ok only for code 0; codes 1, 2, 3, 4, 20 and 50 yield
\* InvalidArgument, InvalidHandle, OutOfMemory, IndexOutOfRange,
\* LockUnlockSemanticViolated and UnspecifiedError; every other code yields an
\* error, never Ok.
C7_TryFromTotal ==
    op.name = "LibCZIApiError::try_from" =>
        /\ ret.ok <=> op.arg = 0
        /\ op.arg = 1 => ret.kind = "InvalidArgument"
        /\ op.arg = 2 => ret.kind = "InvalidHandle"
        /\ op.arg = 3 => ret.kind = "OutOfMemory"
        /\ op.arg = 4 => ret.kind = "IndexOutOfRange"
        /\ op.arg = 20 => ret.kind = "LockUnlockSemanticViolated"
        /\ op.arg = 50 => ret.kind = "UnspecifiedError"
        /\ op.arg \notin {0, 1, 2, 3, 4, 20, 50} => ~ret.ok /\ ret.kind = "UnknownErrorCode"

\* try_from was applied to a code outside the known set and returned an error
C7_Witness ==
    /\ op.name = "LibCZIApiError::try_from"
    /\ op.arg = -1
    /\ ~ret.ok

Taxonomy ==
    {"InvalidArgument", "InvalidHandle", "OutOfMemory", "IndexOutOfRange",
     "LockUnlockSemanticViolated", "CorruptData", "Truncated", "UnspecifiedError"}

\* C9: every failure of a wrapper operation is a returned result carrying one
\* of the kinds of the taxonomy, and no operation panics, whatever the
\* arguments (a negative size, an interior NUL, an unknown native code).
C9_FailuresCarryTaxonomyKind ==
    ~ret.ok => ret.kind \in Taxonomy

FileConstructors ==
    {"InputStream::create_from_file_wide", "InputStream::create_from_file_utf8",
     "OutputStream::create_for_file_wide", "OutputStream::create_for_file_utf8"}

\* C10: the file-based stream constructors report every non-positive native
\* return code as success (Ok with the created stream) and every positive
\* code as failure.
C10_NonPositiveIsSuccess ==
    (op.name \in FileConstructors /\ calls # <<>>) =>
        (ret.ok <=> calls[1].code <= 0)

\* the deallocations of the last operation
Deallocations == {frees[i] : i \in DOMAIN frees}

\* C11: every engine-allocated buffer handed across the boundary is freed
\* exactly once and only by the engine's free operation: every deallocation
\* is made by the engine's free, on a block the engine allocated, and that
\* block has not been freed before.
C11_EngineBuffersFreedOnceByEngine ==
    \A f \in Deallocations :
        /\ f.by = "libCZI_Free"
        /\ f.buf # 0
        /\ f.was = "live"

\* C12: extended statistics follow the truncated-plus-true-count protocol:
\* for a document with n scenes and a requested capacity c >= 0,
\* get_statistics_ex(c) returns n as its output count and a statistics value
\* with exactly min(c, n) per-scene entries, none written outside the value.
C12_StatisticsExTruncation ==
    (op.name = "CziReader::get_statistics_ex" /\ ret.ok) =>
        /\ out.count = out.scenes
        /\ out.entries = Min(op.arg, out.scenes)
        /\ out.beyond = 0

ReadLookups == {"CziReader::read_sub_block", "CziReader::read_attachment"}
InfoLookups ==
    {"CziReader::try_get_sub_block_info_for_index",
     "CziReader::get_attachment_info_from_directory"}

\* C13: directory lookup distinguishes an absent entry from an invalid
\* index: read_sub_block and read_attachment with an index that has no entry
\* return Ok with the 'no object' handle, and
\* try_get_sub_block_info_for_index and get_attachment_info_from_directory
\* with an index outside the valid range return the IndexOutOfRange error.
C13_AbsentEntryVersusInvalidIndex ==
    (scope = "directory" /\ op.name \in ReadLookups \cup InfoLookups
        /\ ~Present(op.arg, out.entries)) =>
        /\ op.name \in ReadLookups =>
              ret.ok /\ out.handle = kInvalidObjectHandle
        /\ op.name \in InfoLookups =>
              ret = [ok |-> FALSE, kind |-> "IndexOutOfRange"]

\* an info lookup beyond the last entry returned IndexOutOfRange
C13_Witness ==
    /\ scope = "directory"
    /\ op.name = "CziReader::try_get_sub_block_info_for_index"
    /\ op.arg = out.entries
    /\ out.entries > 0
    /\ ret.kind = "IndexOutOfRange"

\* C14: raw-data copy-out: get_raw_data called with buffer size s >= 0 on
\* raw data of length n returns n as the reported size and a buffer whose
\* contents are the first min(s, n) bytes of the data.
C14_RawDataCopyOut ==
    (scope = "rawdata" /\ op.name # "init" /\ ret.ok) =>
        /\ out.size = out.n
        /\ out.data = SubSeq(RawData(out.n), 1, Min(op.arg, out.n))

\* C15: the allocate/free pair round-trips through the engine's allocator:
\* on success allocate_memory returns a value holding the pointer to the
\* block the engine allocated, and free(x) passes to the engine's free
\* exactly the pointer held by x, a live block of the engine.
C15_AllocateFreeRoundTrip ==
    /\ (op.name = "allocate_memory" /\ ret.ok) => out.value = out.block
    /\ op.name = "free" =>
          /\ Len(frees) = 1
          /\ frees[1].by = "libCZI_Free"
          /\ frees[1].buf = op.arg
          /\ frees[1].was = "live"

\* C16: pixel data is accessed only while the bitmap is locked: every access
\* to a bitmap's pixel buffer through a view obtained from the wrapper
\* happens while the bitmap is alive and its lock count is greater than
\* zero; no view remains usable after the unlock or the release.
C16_PixelsOnlyWhileLocked ==
    op.name = "read pixels" => (out.rc > 0 /\ out.lock > 0)

\* bit d-1 of the word f
BitOf(f, d) == (f \div 2^(d - 1)) % 2

\* C17: for every word f, Dimension::vec_from_bitflags(f) returns, in
\* ascending order, exactly the dimensions d in 1..9 whose bit d-1 is set in
\* f; bits 9 and above are ignored, the length of the result is the number of
\* set bits among the low 9, and the call never panics, so the k-th returned
\* dimension belongs to position k of the parallel value array.
C17_DimensionsOfSetBits ==
    op.name = "Dimension::vec_from_bitflags" =>
        /\ ret.ok
        /\ Len(out) = Cardinality({d \in 1..9 : BitOf(op.arg, d) = 1})
        /\ \A d \in 1..9 :
              BitOf(op.arg, d) = 1 <=> \E k \in DOMAIN out : out[k] = DimensionNames[d]
        /\ \A j, k \in DOMAIN out : \A d, e \in 1..9 :
              (j < k /\ out[j] = DimensionNames[d] /\ out[k] = DimensionNames[e]) => d < e

\* a word with bits above the low nine set was decoded to C, T and B
C17_Witness ==
    /\ op.name = "Dimension::vec_from_bitflags"
    /\ op.arg = 2^30 + 2^20 + 2^8 + 6
    /\ out = <<"C", "T", "B">>

\* C18: in every call of compositor_do_multi_channel_composition,
\* channel_count is the size of both arrays: the source-bitmap array and the
\* channel-info array handed to the engine each contain exactly
\* channel_count elements, so the engine reads nothing beyond them.
C18_ChannelCountSizesBothArrays ==
    op.name = "compositor_do_multi_channel_composition" =>
        /\ out.bitmaps = out.channel_count
        /\ out.infos = out.channel_count

StringGetters ==
    {"CziReader::get_pyramid_statistics", "CziDocumentInfo::get_general_document_info",
     "CziDocumentInfo::get_dimension_info"}

\* C19: engine strings are freed on every return path: once the native call
\* has succeeded, get_pyramid_statistics, get_general_document_info and
\* get_dimension_info pass the engine-allocated string to the engine's free
\* exactly once before returning, both when they return Ok and when they
\* return an error because the string is not valid UTF-8.
C19_EngineStringFreedOnEveryPath ==
    (op.name \in StringGetters /\ out.code = 0) =>
        /\ Len(frees) = 1
        /\ frees[1].by = "libCZI_Free"
        /\ frees[1].buf = out.block
        /\ frees[1].was = "live"

\* C20: each wrapper type's release (and its Drop) invokes the native release
\* operation of that object's own type: every native release of a live
\* object is made with the release operation of the object's kind; a
\* channel-display-settings object is released with the
\* channel-display-settings release operation.
C20_ReleaseOfOwnType ==
    \A c \in NativeCalls :
        (c.fn = "Release" /\ c.rc > 0) => c.native = EngReleaseOperation(c.kind)

\* C21: after LockedBitmap::unlock on a live bitmap returns Ok(b), the bitmap
\* object b refers to has not been released and has lock count zero, so b
\* can be locked again and queried, and is released once when b is dropped.
C21_UnlockedBitmapStaysAlive ==
    (op.name = "LockedBitmap::unlock" /\ ret.ok /\ calls[1].rc > 0) =>
        /\ eng.rc[calls[1].h] > 0
        /\ eng.lockCnt[calls[1].h] = 0

\* C22: the native close of a writer is issued only while the writer is in
\* the Initialized state: never on a writer that was not successfully
\* initialised and never a second time on a writer that is Finalized.
C22_CloseOnlyWhenInitialized ==
    \A c \in NativeCalls :
        (c.fn = "WriterClose" /\ c.rc > 0) => c.ws = "Initialized"

\* C23: when read_sub_block or read_attachment succeeds with the 'no object'
\* sentinel handle, no native operation, including the release performed on
\* drop, is ever issued on the sentinel handle.
C23_NoNativeCallOnSentinel ==
    \A c \in NativeCalls : c.fn # "Create" => c.h # kInvalidObjectHandle

\* C24: get_statistics_ex never lets the engine write outside the statistics
\* buffer: the capacity passed to the engine, which is the argument c boxed
\* and handed over unchanged, is no greater than the number of per-scene
\* entries the one SubBlockStatisticsInteropEx allocated by the wrapper holds.
C24_CapacityWithinBuffer ==
    op.name = "CziReader::get_statistics_ex" => op.arg <= EntriesInStruct

\* C25: LockedBitmap::copy hands the engine a destination buffer of at least
\* stride * height bytes that the wrapper owns, and on success returns a
\* value built only from initialised data that refers to a valid bitmap
\* object.
C25_CopyDestinationHoldsThePixels ==
    op.name = "LockedBitmap::copy" =>
        /\ out.owned
        /\ out.buffer >= out.needed
        /\ ret.ok =>
              /\ out.needed >= out.buffer
              /\ eng.kind[out.handle] = "Bitmap"
              /\ eng.rc[out.handle] > 0

BufferGetters == {"MetadataAsXml::get_data", "AddSubBlockInfo::get_data"}

\* C26: buffer getters are read-only and idempotent: calling the getter and
\* dropping its result leaves the underlying buffer allocated and unchanged,
\* so a later call on the same value finds the buffer allocated and returns
\* the same bytes.
C26_GettersLeaveTheBuffer ==
    /\ (op.name = "drop" /\ op.ty \in {"RustOwned", "PixelView"}) => frees = <<>>
    /\ op.name \in BufferGetters => out.was = "live"
====
